---- MODULE Spec2Model ----
(***************************************************************************)
(* Model of app/main.py: the AccuWeather scrape / normalise / upload       *)
(* pipeline with its Zoho OAuth token refresh.                             *)
(*                                                                         *)
(* Texts are sequences of tokens (one-character strings, or whole words    *)
(* where the code only compares words).  The degree glyph is the token     *)
(* "deg".  A missing markup node is NoNode.                                *)
(***************************************************************************)
EXTENDS Integers, Sequences, FiniteSets, TLC

VARIABLES
    \* ---- the process (Spec) ----
    access_token,   \* main.py:33 the process-wide credential (None or a token)
    job,            \* the daily_job thread: pc and locals of daily_job / upload_to_zoho
    timer,          \* the proactive refresh_zoho_token thread: pc and locals
    renewed,        \* history: access_token was assigned since upload_to_zoho
                    \* last built its headers (main.py:125-127)
    \* ---- fetch_day_data on one page (SpecExtract) ----
    page,           \* the parsed markup handed to the extraction
    rec,            \* the record returned (NoRec before the call)
    \* ---- the field strips (SpecStrip) ----
    sText,          \* the source text of a node
    sField,         \* which field's strip is applied
    sOut,           \* the successive results of applying the strip
    \* ---- the precipitation scans on one card (SpecScan) ----
    panel,          \* the card's panel items, in document order
    scanOut         \* the results of the two scans (Nothing before the call)

vars == <<access_token, job, timer, renewed, page, rec, sText, sField, sOut, panel, scanOut>>

procVars == <<access_token, job, timer, renewed>>
extractVars == <<page, rec>>
stripVars == <<sText, sField, sOut>>
scanVars == <<panel, scanOut>>

----------------------------------------------------------------------------
(* Bounds of the model *)

\* longest source text of the strip harness
MaxLen == 7
\* most half-day cards on a page of the extraction harness
MaxCards == 2
\* days fetched by one daily_job run (main.py:31 sets 30; scaled down)
DAYS_TO_FETCH == 3
\* distinct tokens the OAuth endpoint hands out
MaxToken == 2
\* most panel items of the card of the scan harness
MaxItems == 3

----------------------------------------------------------------------------
(* Python string helpers *)

\* An optional value is a sequence of at most one element.
NoNode == <<>>
Some(x) == <<x>>
\* Python's None where an object is expected (a card, a record)
Nothing == <<>>
\* access_token = None (main.py:33); tokens are 1..MaxToken
None == 0

WS == " "

\* s[i..] of a sequence
Drop(s, n) == SubSeq(s, n + 1, Len(s))

\* `pat in s`
Contains(s, pat) ==
    \E i \in 1..(Len(s) - Len(pat) + 1) : SubSeq(s, i, i + Len(pat) - 1) = pat

\* a bug: str.replace(old, "", 1), only the first occurrence goes
RECURSIVE str_replace_first(_, _)
str_replace_first(s, pat) ==
    IF Len(s) < Len(pat) THEN s
    ELSE IF SubSeq(s, 1, Len(pat)) = pat THEN Drop(s, Len(pat))
    ELSE <<Head(s)>> \o str_replace_first(Tail(s), pat)

\* str.replace(old, ""): every non-overlapping occurrence, scanning left to right
RECURSIVE str_replace(_, _)
str_replace(s, pat) ==
    IF Len(s) < Len(pat) THEN s
    ELSE IF SubSeq(s, 1, Len(pat)) = pat THEN str_replace(Drop(s, Len(pat)), pat)
    ELSE <<Head(s)>> \o str_replace(Tail(s), pat)

RECURSIVE lstrip(_)
lstrip(s) == IF s # <<>> /\ Head(s) = WS THEN lstrip(Tail(s)) ELSE s

RECURSIVE rstrip(_)
rstrip(s) ==
    IF s # <<>> /\ s[Len(s)] = WS THEN rstrip(SubSeq(s, 1, Len(s) - 1)) ELSE s

\* str.strip()
py_strip(s) == rstrip(lstrip(s))

\* Tag.get_text(strip=True) of a node holding one text node
get_text_strip(text) == py_strip(text)

\* Tag.get_text() of a node holding one text node
get_text(text) == text

DEGREE == <<"deg">>
PERCENT == <<"%">>
MM_SUFFIX == <<" ", "m", "m">>

\* main.py:78  t.get_text(strip=True).replace("°", "")
temp_text(t) == str_replace(get_text_strip(t), DEGREE)
\* main.py:89  val.get_text(strip=True).replace("%", "")
pct_text(val) == str_replace(get_text_strip(val), PERCENT)
\* main.py:101 val.get_text(strip=True).replace(" mm", "")
mm_text(val) == str_replace(get_text_strip(val), MM_SUFFIX)

----------------------------------------------------------------------------
(* fetch_day_data: the extraction, main.py:61-112 *)

\* A page is [date_tag, cards]; a card is [h2, temperature, items]; a panel
\* item is [direct_text, value].  date_tag, h2, temperature and value are
\* optional texts; direct_text is the item's direct child text nodes in
\* document order.

DAY == <<"D", "a", "y">>
NIGHT == <<"N", "i", "g", "h", "t">>
POP_LABEL == <<"Probability", " ", "of", " ", "Precipitation">>
PRECIP_LABEL == <<"Precipitation">>

\* main.py:69-70  next((c for c in cards if c.select_one("h2") and word in ...), None)
RECURSIVE first_card(_, _)
first_card(cards, word) ==
    IF cards = <<>> THEN Nothing
    ELSE LET c == Head(cards) IN
         IF c.h2 # NoNode /\ Contains(get_text(c.h2[1]), word) THEN Some(c)
         ELSE first_card(Tail(cards), word)

\* a bug: a missing card or temperature node gives None, not ""
get_temp_none(card) ==
    IF card = Nothing THEN <<"None">>
    ELSE LET t == card[1].temperature IN
         IF t # NoNode THEN temp_text(t[1]) ELSE <<"None">>

\* main.py:73-80
get_temp(card) ==
    IF card = Nothing THEN <<>>
    ELSE LET t == card[1].temperature IN
         IF t # NoNode THEN temp_text(t[1]) ELSE <<>>

\* main.py:86/98  item.find(text=True, recursive=False): an optional text
find_direct_text(item) ==
    IF item.direct_text = <<>> THEN NoNode ELSE Some(Head(item.direct_text))

\* main.py:85-92, the loop over card.select(".panel-item")
RECURSIVE chance_scan(_)
chance_scan(items) ==
    IF items = <<>> THEN <<>>
    ELSE LET item == Head(items)
             label == find_direct_text(item)
         IN  IF label # NoNode /\ label[1] # <<>> /\ py_strip(label[1]) = POP_LABEL
             THEN IF item.value # NoNode THEN pct_text(item.value[1]) ELSE <<>>
             ELSE chance_scan(Tail(items))

\* main.py:82-92
get_precip_chance(card) ==
    IF card = Nothing THEN <<>> ELSE chance_scan(card[1].items)

\* a bug: the label is matched as a substring
RECURSIVE amount_scan_substring(_)
amount_scan_substring(items) ==
    IF items = <<>> THEN <<>>
    ELSE LET item == Head(items)
             label == find_direct_text(item)
         IN  IF label # NoNode /\ label[1] # <<>> /\ Contains(label[1], PRECIP_LABEL)
             THEN IF item.value # NoNode THEN mm_text(item.value[1]) ELSE <<>>
             ELSE amount_scan_substring(Tail(items))

\* main.py:97-104, the loop over card.select(".panel-item")
RECURSIVE amount_scan(_)
amount_scan(items) ==
    IF items = <<>> THEN <<>>
    ELSE LET item == Head(items)
             label == find_direct_text(item)
         IN  IF label # NoNode /\ label[1] # <<>> /\ py_strip(label[1]) = PRECIP_LABEL
             THEN IF item.value # NoNode THEN mm_text(item.value[1]) ELSE <<>>
             ELSE amount_scan(Tail(items))

\* main.py:94-104
get_precip_amount(card) ==
    IF card = Nothing THEN <<>> ELSE amount_scan(card[1].items)

\* the keys of the returned dict, in insertion order (main.py:106-112)
FIELDS == <<"Date", "HighTemp", "LowTemp", "PrecipChance_%", "PrecipAmount_mm">>

\* a bug: the precipitation fields fall back to the night card
parse_page_night_fallback(p) ==
    LET date == IF p.date_tag # NoNode THEN get_text_strip(p.date_tag[1]) ELSE <<>>
        day_card == first_card(p.cards, DAY)
        night_card == first_card(p.cards, NIGHT)
        pc == IF day_card # Nothing THEN day_card ELSE night_card
    IN  ("Date" :> date)
        @@ ("HighTemp" :> get_temp(day_card))
        @@ ("LowTemp" :> get_temp(night_card))
        @@ ("PrecipChance_%" :> get_precip_chance(pc))
        @@ ("PrecipAmount_mm" :> get_precip_amount(pc))

\* main.py:61-112, the record built from the parsed page
parse_page(p) ==
    LET date == IF p.date_tag # NoNode THEN get_text_strip(p.date_tag[1]) ELSE <<>>
        day_card == first_card(p.cards, DAY)
        night_card == first_card(p.cards, NIGHT)
    IN  ("Date" :> date)
        @@ ("HighTemp" :> get_temp(day_card))
        @@ ("LowTemp" :> get_temp(night_card))
        @@ ("PrecipChance_%" :> get_precip_chance(day_card))
        @@ ("PrecipAmount_mm" :> get_precip_amount(day_card))

----------------------------------------------------------------------------
(* The process: the scheduler's daily_job thread and its refresh thread *)

\* requests' Response.raise_for_status(), main.py:48, 60, 149: raises on 4xx, 5xx
raise_for_status(status) == status >= 400 /\ status < 600

\* a bug: the 401 test widened to every error status
is_any_error(status) == status >= 400
\* main.py:142
is_unauthorized(status) == status = 401

\* main.py:48-50: refresh_zoho_token returns normally iff the status passes
\* raise_for_status and the JSON body holds "access_token" (token = None
\* stands for a body without that key: KeyError)
refresh_returns(r) == ~raise_for_status(r.status) /\ r.token # None

\* a bug: every record is appended, whatever its Date
accumulate_all(records, r) == Append(records, r)
\* main.py:159-160
accumulate(records, r) == IF r["Date"] # <<>> THEN Append(records, r) ELSE records

\* pandas: DataFrame(records).to_csv(index=False), main.py:119-121, as the
\* lines of the file.  The columns are the keys of the records; an empty
\* list has no columns, and its header line names no field.
to_csv(records) ==
    IF records = <<>> THEN <<<<>>>>
    ELSE <<FIELDS>> \o [i \in 1..Len(records) |->
                          [k \in 1..Len(FIELDS) |-> records[i][FIELDS[k]]]]

\* no scan has run
NoScan == [chance |-> Nothing, amount |-> Nothing]

\* the locals of a daily_job run, with the history of its requests
FreshJob ==
    [pc |-> "idle", d |-> 1, records |-> <<>>,
     \* the history of the fetch loop, kept until the first POST is sent:
     outcomes |-> <<>>,     \* the answers to the fetches of this run
     fetched |-> <<>>,      \* the days of the fetch attempts of this run
     uploads |-> 0,         \* calls of upload_to_zoho in this run
     csv |-> <<>>,          \* forecast.csv
     fpos |-> 0,            \* position of the open file object of files["Data"]
     headers |-> None,      \* the token in headers["Authorization"]
     hnew |-> FALSE,        \* history: that token was read when renewed held
     posts |-> <<>>,        \* the upload POSTs sent: [auth, body, renewed]
     resps |-> <<>>,        \* their response statuses
     refreshes |-> 0,       \* calls of refresh_zoho_token by upload_to_zoho
     rresp |-> Nothing,     \* the token endpoint's answer to that call
     data |-> None,         \* data["access_token"] in that call
     stores |-> 0,          \* assignments to access_token by this run
     result |-> "none"]     \* how the run ended

FreshTimer == [pc |-> "idle", rresp |-> Nothing, data |-> None, posts |-> 0,
               result |-> "none"]

\* a bug: the exception leaves the scheduler's worker dead
job_crashed(j, why) == [j EXCEPT !.pc = "crashed", !.result = why]
\* main.py:177-181: the BackgroundScheduler logs an exception a job raises
\* and keeps scheduling it
job_raised(j, why) == [j EXCEPT !.pc = "idle", !.result = why]

\* a bug: raise_for_status called with a wider test
finish_non2xx(j, status) ==
    IF status < 200 \/ status >= 300 THEN job_raised(j, "upload_error")
    ELSE [j EXCEPT !.pc = "idle", !.result = "ok"]
\* main.py:149-150
finish(j, status) ==
    IF raise_for_status(status) THEN job_raised(j, "upload_error")
    ELSE [j EXCEPT !.pc = "idle", !.result = "ok"]

\* panel items of the pages served
PopItem == [direct_text |-> <<POP_LABEL>>, value |-> Some(<<"6", "0", "%">>)]
PrecipItem ==
    [direct_text |-> <<<<" ">> \o PRECIP_LABEL>>, value |-> Some(<<"2", " ", "m", "m">>)]
BareItem == [direct_text |-> <<>>, value |-> NoNode]
NoValueItem == [direct_text |-> <<PRECIP_LABEL>>, value |-> NoNode]

Digit == <<"1", "2", "3", "4", "5", "6", "7", "8", "9">>
DateText(d) == <<"J", "u", "n", " ", Digit[d]>>
DayCard == [h2 |-> Some(DAY), temperature |-> Some(<<"3", "1", "deg">>),
            items |-> <<PopItem, PrecipItem>>]
NightCard == [h2 |-> Some(NIGHT), temperature |-> Some(<<"2", "0", "deg">>),
              items |-> <<>>]
\* the forecast page of day d, with or without its pagination label
DayPage(d, dated) ==
    [date_tag |-> IF dated THEN Some(DateText(d)) ELSE NoNode,
     cards |-> <<DayCard, NightCard>>]

\* what requests.get answers for day d, main.py:58: status 0 stands for a
\* network error (requests raises), otherwise a response
FetchOutcomes(d) ==
    {[status |-> 0, page |-> Nothing], [status |-> 500, page |-> Nothing],
     [status |-> 200, page |-> Some(DayPage(d, TRUE))],
     [status |-> 200, page |-> Some(DayPage(d, FALSE))]}

\* main.py:58-60: fetch_day_data raises
fetch_raises(o) == o.status = 0 \/ raise_for_status(o.status)

UploadStatuses == {100, 200, 304, 401, 403, 500}

\* what the token endpoint answers, main.py:38-46
RefreshResponses ==
    {[status |-> 200, token |-> t] : t \in 0..MaxToken}
        \cup {[status |-> 500, token |-> None]}

Init ==
    /\ access_token = None
    /\ job = FreshJob
    /\ timer = FreshTimer
    /\ renewed = FALSE
    /\ page = Nothing /\ rec = Nothing
    /\ sText = <<>> /\ sField = "none" /\ sOut = <<>>
    /\ panel = <<>> /\ scanOut = NoScan

\* main.py:178 fires daily_job; main.py:153-155
JobStart ==
    /\ job.pc = "idle"
    /\ job' = [FreshJob EXCEPT !.pc = "fetch"]
    /\ UNCHANGED <<access_token, timer, renewed, extractVars, stripVars, scanVars>>

\* a bug: a failing day ends the loop
fetch_step_abort(j, o) ==
    LET recs == IF fetch_raises(o) THEN j.records
                ELSE accumulate(j.records, parse_page(o.page[1]))
        last == j.d = DAYS_TO_FETCH \/ fetch_raises(o)
    IN  [j EXCEPT !.records = recs,
                  !.outcomes = Append(j.outcomes, o),
                  !.fetched = Append(j.fetched, j.d),
                  !.d = j.d + 1,
                  !.pc = IF last THEN "upload" ELSE "fetch"]
\* main.py:156-164: one iteration of the loop over the days
fetch_step(j, o) ==
    LET recs == IF fetch_raises(o) THEN j.records
                ELSE accumulate(j.records, parse_page(o.page[1]))
    IN  [j EXCEPT !.records = recs,
                  !.outcomes = Append(j.outcomes, o),
                  !.fetched = Append(j.fetched, j.d),
                  !.d = j.d + 1,
                  !.pc = IF j.d = DAYS_TO_FETCH THEN "upload" ELSE "fetch"]

FetchDay(o) ==
    /\ job.pc = "fetch"
    /\ job' = fetch_step(job, o)
    /\ UNCHANGED <<access_token, timer, renewed, extractVars, stripVars, scanVars>>

\* main.py:165, 114-136: the call of upload_to_zoho up to the first POST
UploadBegin ==
    /\ job.pc = "upload"
    /\ job' = [job EXCEPT !.uploads = job.uploads + 1,
                          !.csv = to_csv(job.records),
                          !.fpos = 0,
                          !.headers = access_token,
                          !.hnew = FALSE,
                          !.pc = "post1"]
    /\ renewed' = FALSE
    /\ UNCHANGED <<access_token, timer, extractVars, stripVars, scanVars>>

\* requests.post(url, files=files, headers=headers): the file object is read
\* from its position to its end
send_post(j, status) ==
    [j EXCEPT !.posts = Append(j.posts,
                  [auth |-> j.headers, body |-> Drop(j.csv, j.fpos),
                   renewed |-> j.hnew]),
              !.fpos = Len(j.csv),
              !.resps = Append(j.resps, status),
              !.outcomes = <<>>, !.fetched = <<>>]

\* main.py:139-142, and 149-150 when the status is not 401
UploadPost(status) ==
    /\ job.pc = "post1"
    /\ job' = IF is_unauthorized(status)
              THEN [send_post(job, status) EXCEPT !.pc = "refresh"]
              ELSE finish(send_post(job, status), status)
    /\ UNCHANGED <<access_token, timer, renewed, extractVars, stripVars, scanVars>>

\* a bug: the refresh failure is swallowed and the upload retried
after_refresh_swallow(j, r) ==
    IF refresh_returns(r) THEN [j EXCEPT !.pc = "store", !.data = r.token]
    ELSE [j EXCEPT !.pc = "rebuild"]
\* main.py:144 with 38-49: the token request returns or raises
after_refresh(j, r) ==
    IF refresh_returns(r) THEN [j EXCEPT !.pc = "store", !.data = r.token]
    ELSE job_raised(j, "refresh_error")

\* main.py:144, 37-49
UploadRefresh(r) ==
    /\ job.pc = "refresh"
    /\ job' = after_refresh([job EXCEPT !.refreshes = job.refreshes + 1,
                                        !.rresp = Some(r)], r)
    /\ UNCHANGED <<access_token, timer, renewed, extractVars, stripVars, scanVars>>

\* main.py:50 in the call from upload_to_zoho
UploadStore ==
    /\ job.pc = "store"
    /\ access_token' = job.data
    /\ job' = [job EXCEPT !.stores = job.stores + 1, !.pc = "rebuild"]
    /\ renewed' = TRUE
    /\ UNCHANGED <<timer, extractVars, stripVars, scanVars>>

\* a bug: the retry goes out with the headers of the first POST
keep_headers(j, tok, ren) == [j EXCEPT !.pc = "retry"]
\* main.py:145: headers["Authorization"] rebuilt from the stored credential
rebuild_headers(j, tok, ren) ==
    [j EXCEPT !.headers = tok, !.hnew = ren, !.pc = "retry"]

\* main.py:145
UploadRebuild ==
    /\ job.pc = "rebuild"
    /\ job' = rebuild_headers(job, access_token, renewed)
    /\ UNCHANGED <<access_token, timer, renewed, extractVars, stripVars, scanVars>>

\* a bug: a 401 on the retry refreshes and retries again
after_retry_loop(j, status) ==
    IF is_unauthorized(status) /\ Len(j.posts) < 3 THEN [j EXCEPT !.pc = "refresh"]
    ELSE finish(j, status)
\* main.py:147-150
after_retry(j, status) == finish(j, status)

\* main.py:146-150
UploadRetry(status) ==
    /\ job.pc = "retry"
    /\ job' = after_retry(send_post(job, status), status)
    /\ UNCHANGED <<access_token, timer, renewed, extractVars, stripVars, scanVars>>

\* a bug: the body's token is stored whether or not the request failed
timer_after_unchecked(t, r) == [t EXCEPT !.pc = "store", !.data = r.token]
\* main.py:48-49 in the scheduler's call; main.py:180
timer_after(t, r) ==
    IF refresh_returns(r) THEN [t EXCEPT !.pc = "store", !.data = r.token]
    ELSE [t EXCEPT !.pc = "idle", !.result = "raised"]

\* main.py:180 fires refresh_zoho_token; main.py:37-49
TimerRefresh(r) ==
    /\ timer.pc = "idle"
    /\ timer' = timer_after([FreshTimer EXCEPT !.posts = 1, !.rresp = Some(r)], r)
    /\ UNCHANGED <<access_token, job, renewed, extractVars, stripVars, scanVars>>

\* main.py:50 in the scheduler's call
TimerStore ==
    /\ timer.pc = "store"
    /\ access_token' = timer.data
    /\ timer' = [timer EXCEPT !.pc = "idle", !.result = "ok"]
    /\ renewed' = TRUE
    /\ UNCHANGED <<job, extractVars, stripVars, scanVars>>

JobStep ==
    \/ \E o \in FetchOutcomes(job.d) : FetchDay(o)
    \/ UploadBegin
    \/ \E st \in UploadStatuses : UploadPost(st)
    \/ \E r \in RefreshResponses : UploadRefresh(r)
    \/ UploadStore
    \/ UploadRebuild
    \/ \E st \in UploadStatuses : UploadRetry(st)

TimerStep ==
    \/ \E r \in RefreshResponses : TimerRefresh(r)
    \/ TimerStore

Next == JobStart \/ JobStep \/ TimerStep

Spec == Init /\ [][Next]_vars

\* main.py:178: the cron trigger fires every day, so a daily_job that can
\* start does start
FairSpec == Spec /\ WF_vars(JobStart)

----------------------------------------------------------------------------
(* Inputs of the harnesses *)

Range(f) == {f[i] : i \in DOMAIN f}
SeqsUpTo(S, n) == UNION {[1..k -> S] : k \in 0..n}

\* the alphabet of source texts: the space, 'm' and the two glyphs
Alphabet == {" ", "m", "deg", "%"}
Texts == SeqsUpTo(Alphabet, MaxLen)

StripFields == {"temp", "pct", "mm"}
PatternOf(f) ==
    CASE f = "temp" -> DEGREE
      [] f = "pct" -> PERCENT
      [] f = "mm" -> MM_SUFFIX
\* the field text the code computes from a node's text
FieldText(f, text) ==
    CASE f = "temp" -> temp_text(text)
      [] f = "pct" -> pct_text(text)
      [] f = "mm" -> mm_text(text)

Headings == {NoNode, Some(DAY), Some(NIGHT), Some(<<"T", "o", "d", "a", "y">>)}
Temps == {NoNode, Some(<<"3", "deg">>), Some(<<" ", "1", "deg">>), Some(<<"deg">>)}
ItemLists == {<<>>, <<PopItem, PrecipItem>>, <<BareItem, NoValueItem>>}
DateTags == {NoNode, Some(<<"J", "u", "n", " ", "1">>), Some(<<" ">>)}

Cards == [h2 : Headings, temperature : Temps, items : ItemLists]
Pages == [date_tag : DateTags, cards : SeqsUpTo(Cards, MaxCards)]

----------------------------------------------------------------------------
(* SpecStrip: the field strips applied to a source text, then re-applied *)

ProcIdle ==
    /\ access_token = None
    /\ job = [pc |-> "off"]
    /\ timer = [pc |-> "off"]
    /\ renewed = FALSE

InitStrip ==
    /\ ProcIdle
    /\ page = Nothing /\ rec = Nothing
    /\ sText \in Texts
    /\ sField = "none"
    /\ sOut = <<>>
    /\ panel = <<>> /\ scanOut = NoScan

\* main.py:78/89/101: the field's text from the node's text
StripApply(f) ==
    /\ sOut = <<>>
    /\ sField' = f
    /\ sOut' = <<FieldText(f, sText)>>
    /\ UNCHANGED <<sText, procVars, extractVars, scanVars>>

\* the same replace applied to the text already stripped
StripAgain ==
    /\ Len(sOut) = 1
    /\ sOut' = Append(sOut, str_replace(sOut[1], PatternOf(sField)))
    /\ UNCHANGED <<sText, sField, procVars, extractVars, scanVars>>

NextStrip == (\E f \in StripFields : StripApply(f)) \/ StripAgain

SpecStrip == InitStrip /\ [][NextStrip]_vars

----------------------------------------------------------------------------
(* SpecExtract: fetch_day_data's extraction applied to one page *)

InitExtract ==
    /\ ProcIdle
    /\ sText = <<>> /\ sField = "none" /\ sOut = <<>>
    /\ panel = <<>> /\ scanOut = NoScan
    /\ page \in {Some(p) : p \in Pages}
    /\ rec = Nothing

Extract ==
    /\ rec = Nothing
    /\ rec' = Some(parse_page(page[1]))
    /\ UNCHANGED <<page, procVars, stripVars, scanVars>>

NextExtract == Extract

SpecExtract == InitExtract /\ [][NextExtract]_vars

----------------------------------------------------------------------------
(* Claims about the process *)

Finished == job.pc = "idle" /\ job.result # "none"
Got401 == Len(job.resps) >= 1 /\ job.resps[1] = 401
RefreshFailed ==
    job.rresp # Nothing
        /\ (raise_for_status(job.rresp[1].status) \/ job.rresp[1].token = None)

\* C1: one upload call sends at most 2 POSTs and calls refresh at most once;
\* a refresh or a second POST happens only after a 401 on the first POST; a
\* 401 on the first POST is followed by exactly one refresh call and, when
\* that refresh returns, exactly one retry POST; a 401 on the retry ends the
\* upload with a fatal error, with 2 POSTs and 1 refresh.
C1_OneRefreshOneRetry ==
    /\ Len(job.posts) <= 2 /\ job.refreshes <= 1 /\ job.uploads <= 1
    /\ (job.refreshes = 1 \/ Len(job.posts) = 2) => Got401
    /\ (Finished /\ Got401) =>
           /\ job.refreshes = 1
           /\ ~RefreshFailed => Len(job.posts) = 2
    /\ (Len(job.resps) = 2 /\ job.resps[2] = 401) =>
           /\ Finished /\ job.result = "upload_error"
           /\ Len(job.posts) = 2 /\ job.refreshes = 1

\* an upload whose first POST and retry POST were both answered 401
C1_Witness ==
    /\ Finished /\ job.resps = <<401, 401>>
    /\ job.refreshes = 1 /\ Len(job.posts) = 2

\* C2: when the first POST is answered by a failure status other than 401,
\* the upload has ended with a fatal error, with no refresh call, no second
\* POST and no assignment to the credential.
C2_NoRefreshOnOtherFailure ==
    (Len(job.resps) >= 1 /\ job.resps[1] # 401 /\ job.resps[1] >= 400) =>
        /\ Finished /\ job.result = "upload_error"
        /\ job.refreshes = 0 /\ job.rresp = Nothing
        /\ Len(job.posts) = 1
        /\ job.stores = 0

\* an upload whose first POST was answered 500
C2_Witness == Finished /\ job.resps = <<500>> /\ job.result = "upload_error"

Ascending(n) == [i \in 1..n |-> i]

\* C3: the fetch attempts of a run are the days 1, 2, ... in ascending
\* order, never more than DAYS_TO_FETCH, whatever the fetch outcomes; the
\* loop ends, and upload_to_zoho is called, when exactly the days
\* 1..DAYS_TO_FETCH have been attempted; the call is made once per run, and
\* every run that left the loop has made it.
C3_AllDaysThenOneUpload ==
    /\ job.fetched = Ascending(Len(job.fetched))
    /\ Len(job.fetched) <= DAYS_TO_FETCH
    /\ Len(job.outcomes) = Len(job.fetched)
    /\ job.uploads <= 1
    /\ job.pc = "fetch" => job.uploads = 0 /\ Len(job.fetched) < DAYS_TO_FETCH
    /\ job.pc = "upload" => job.uploads = 0 /\ job.fetched = Ascending(DAYS_TO_FETCH)
    /\ job.pc = "post1" => job.uploads = 1 /\ job.fetched = Ascending(DAYS_TO_FETCH)
    /\ (job.pc \notin {"fetch", "upload"} /\ job # FreshJob) => job.uploads = 1

\* a run whose fetches failed or had no Date has called upload_to_zoho with
\* the empty list
C3_Witness ==
    /\ job.pc = "post1" /\ job.uploads = 1 /\ job.records = <<>>
    /\ job.csv = to_csv(<<>>)
    /\ \E i \in 1..Len(job.outcomes) : job.outcomes[i].status = 500
    /\ \E i \in 1..Len(job.outcomes) : job.outcomes[i].status = 0
    /\ \E i \in 1..Len(job.outcomes) : job.outcomes[i].status = 200

\* the indexes of the days that contribute a row
Good(outs) ==
    {i \in 1..Len(outs) :
        /\ outs[i].status = 200
        /\ outs[i].page[1].date_tag # NoNode
        /\ py_strip(outs[i].page[1].date_tag[1]) # <<>>}
\* the k-th smallest element of a set of numbers
RECURSIVE Kth(_, _)
Kth(S, k) ==
    LET m == CHOOSE x \in S : \A y \in S : x <= y
    IN  IF k = 1 THEN m ELSE Kth(S \ {m}, k - 1)
\* the records of the contributing days, in ascending day order
ExpectedRecords(outs) ==
    [k \in 1..Cardinality(Good(outs)) |-> parse_page(outs[Kth(Good(outs), k)].page[1])]

\* C4: the accumulator, and so the list handed to upload_to_zoho, is the
\* records of the days fetched so far whose fetch succeeded with a non-empty
\* Date, in ascending day order; the file written by the call holds one row
\* per such record.
C4_FilteredInOrder ==
    /\ job.pc \in {"fetch", "upload", "post1"} =>
           job.records = ExpectedRecords(job.outcomes)
    /\ job.pc = "post1" => Len(job.csv) = 1 + Cardinality(Good(job.outcomes))

\* DAYS_TO_FETCH days with only day 2 failing: the records of the other days
C4_Witness ==
    /\ job.pc = "post1" /\ job.uploads = 1
    /\ job.outcomes[2].status = 500
    /\ Good(job.outcomes) = (1..DAYS_TO_FETCH) \ {2}
    /\ Len(job.records) = DAYS_TO_FETCH - 1
    /\ job.records[1]["Date"] = DateText(1)
    /\ job.records[2]["Date"] = DateText(3)

FinalStatus == job.resps[Len(job.resps)]
EndedOnStatus == Finished /\ job.result \in {"ok", "upload_error"}

\* C5 as stated: the upload returns normally only if the final response has
\* a 2xx status, and raises for every final status outside 2xx.
C5_Original ==
    EndedOnStatus =>
        (job.result = "ok" <=> (FinalStatus >= 200 /\ FinalStatus < 300))

\* C5 amended: the upload raises exactly when the final response has a 4xx
\* or 5xx status; a final 1xx, 2xx or 3xx status returns normally.
C5_RaisesOn4xx5xx ==
    /\ EndedOnStatus =>
           (job.result = "upload_error" <=> (FinalStatus >= 400 /\ FinalStatus < 600))
    /\ (Finished /\ job.result = "ok") => job.resps # <<>>

\* an upload that ended after a retry answered 304, and returned normally
C5_Witness ==
    Finished /\ job.resps = <<401, 304>> /\ job.result = "ok"

\* C6: when the refresh called after a 401 fails, the upload has ended with
\* that error, having sent one POST and called refresh once, with no
\* assignment to the credential; when the timer's refresh fails, that call
\* has ended with the error after a single token request.
C6_RefreshFailureNotRetried ==
    /\ RefreshFailed =>
           /\ Finished /\ job.result = "refresh_error"
           /\ Len(job.posts) = 1 /\ job.refreshes = 1 /\ job.stores = 0
    /\ job.result = "refresh_error" => RefreshFailed
    /\ (timer.rresp # Nothing
          /\ (raise_for_status(timer.rresp[1].status) \/ timer.rresp[1].token = None)) =>
           timer.pc = "idle" /\ timer.result = "raised" /\ timer.posts = 1

\* both refreshes failed: the one after the 401 and the timer's
C6_Witness ==
    /\ Finished /\ job.result = "refresh_error" /\ job.resps = <<401>>
    /\ job.rresp = Some([status |-> 500, token |-> None])
    /\ timer.result = "raised" /\ timer.rresp = Some([status |-> 200, token |-> None])

Returned(r) == r.status < 400 /\ r.token # None
JobStores ==
    /\ job.pc = "store" /\ job'.pc = "rebuild"
    /\ Returned(job.rresp[1])
    /\ access_token' = job.rresp[1].token
TimerStores ==
    /\ timer.pc = "store" /\ timer'.pc = "idle"
    /\ Returned(timer.rresp[1])
    /\ access_token' = timer.rresp[1].token

\* C7: the credential is absent at start; every step that changes it is the
\* assignment of a refresh call whose token request returned without error,
\* and stores the token of that response; a step of a fetch, of an upload
\* POST or of a token request leaves it unchanged.
C7_TokenOnlyByRefresh ==
    /\ access_token = None
    /\ [][/\ access_token' # access_token => (JobStores \/ TimerStores)
          /\ (job' # job /\ job.pc \in {"idle", "fetch", "upload", "post1",
                                        "refresh", "rebuild", "retry"})
                 => access_token' = access_token
          /\ (timer' # timer /\ timer.pc = "idle") => access_token' = access_token
         ]_vars

\* the credential replaced by a refresh after a 401, a credential being set
C7_Witness ==
    /\ job.pc = "rebuild" /\ job.stores = 1
    /\ access_token = job.data /\ access_token # None
    /\ job.headers # None /\ job.headers # access_token

JobFailed == Finished /\ job.result \in {"upload_error", "refresh_error"}

\* C8: a run that ended in a fatal error leaves the job idle; the next run
\* starts with the locals of a fresh run, the credential being all that is
\* kept; a failed timer refresh leaves the timer idle; and after a failed
\* run, and after a failed timer refresh with the job idle, the next
\* daily_job does start.
C8_RunsIsolated ==
    /\ [](job.result \in {"upload_error", "refresh_error"} => job.pc = "idle")
    /\ [](timer.result = "raised" => timer.pc = "idle")
    /\ [][(job.pc = "idle" /\ job' # job) =>
             /\ job' = [FreshJob EXCEPT !.pc = "fetch"]
             /\ access_token' = access_token]_vars
    /\ (JobFailed ~> job.pc = "fetch")
    /\ ((timer.result = "raised" /\ job.pc = "idle") ~> job.pc = "fetch")

\* a run starting after a failed run and a failed timer refresh
C8_Witness ==
    /\ job = [FreshJob EXCEPT !.pc = "fetch"]
    /\ timer.result = "raised"
    /\ access_token # None

----------------------------------------------------------------------------
(* C9 *)

HasHeading(c, word) == c.h2 # NoNode /\ Contains(c.h2[1], word)
NoDayCard(p) == \A i \in 1..Len(p.cards) : ~HasHeading(p.cards[i], DAY)
NightIdx(p) == {i \in 1..Len(p.cards) : HasHeading(p.cards[i], NIGHT)}
FirstNight(p) == p.cards[CHOOSE i \in NightIdx(p) : \A j \in NightIdx(p) : i <= j]
\* the degree-stripped temperature text of the first "Night" card
ExpectedLow(p) ==
    IF NightIdx(p) = {} THEN <<>>
    ELSE IF FirstNight(p).temperature = NoNode THEN <<>>
    ELSE str_replace(py_strip(FirstNight(p).temperature[1]), DEGREE)

NoDayFields(p, r) ==
    /\ r["HighTemp"] = <<>>
    /\ r["PrecipChance_%"] = <<>>
    /\ r["PrecipAmount_mm"] = <<>>
    /\ r["LowTemp"] = ExpectedLow(p)

\* C9 as stated: on a page with no card headed "Day", HighTemp and both
\* precipitation fields are empty and LowTemp is the stripped temperature of
\* the first "Night" card, empty only if that card or its temperature node is
\* missing.
C9_Original ==
    (rec # Nothing /\ NoDayCard(page[1])) =>
        /\ NoDayFields(page[1], rec[1])
        /\ rec[1]["LowTemp"] = <<>> =>
               (NightIdx(page[1]) = {} \/ FirstNight(page[1]).temperature = NoNode)

\* C9 amended: as C9, but LowTemp is also empty when the temperature node's
\* text is empty once whitespace and the degree glyph are removed.
C9_NoDayCard ==
    (rec # Nothing /\ NoDayCard(page[1])) =>
        /\ NoDayFields(page[1], rec[1])
        /\ rec[1]["LowTemp"] = <<>> =>
               \/ NightIdx(page[1]) = {}
               \/ FirstNight(page[1]).temperature = NoNode
               \/ str_replace(py_strip(FirstNight(page[1]).temperature[1]), DEGREE) = <<>>

\* a page without a day card whose night card has a temperature and
\* precipitation panel items, extracted
C9_Witness ==
    /\ rec # Nothing
    /\ NoDayCard(page[1])
    /\ NightIdx(page[1]) # {}
    /\ FirstNight(page[1]).items = <<PopItem, PrecipItem>>
    /\ rec[1]["LowTemp"] = <<"3">>

----------------------------------------------------------------------------
(* C10 *)

Idempotent == sOut[2] = sOut[1] /\ ~Contains(sOut[1], PatternOf(sField))

\* C10 as stated: for every source text, re-applying a field's strip to the
\* stripped text changes nothing, and the stripped text does not contain the
\* stripped pattern.
C10_Original == Len(sOut) = 2 => Idempotent

\* C10 amended: that holds for the degree and the percent glyph on every
\* text, and for " mm" on every text that does not contain " mmm".
C10_StripIdempotent ==
    (Len(sOut) = 2 /\ (sField = "mm" => ~Contains(sText, MM_SUFFIX \o <<"m">>)))
        => Idempotent

\* a text holding " mm" twice, stripped of it and stripped again
C10_Witness ==
    /\ Len(sOut) = 2
    /\ sField = "mm"
    /\ sText = <<"%", " ", "m", "m", " ", "m", "m">>
    /\ sOut[1] = <<"%">>

----------------------------------------------------------------------------
(* C11 *)

RowOf(r) == [k \in 1..Len(FIELDS) |-> r[FIELDS[k]]]

\* C11: for every record list handed to upload_to_zoho, the empty list
\* included, the export written and posted has as its header row the five
\* field names in the order of FIELDS, followed by one row per record in the
\* given order.
C11_HeaderAndRows ==
    job.pc \in {"post1", "refresh"} =>
        /\ job.csv[1] = FIELDS
        /\ Len(job.csv) = 1 + Len(job.records)
        /\ \A i \in 1..Len(job.records) : job.csv[i + 1] = RowOf(job.records[i])
        /\ job.pc = "refresh" => job.posts[1].body = job.csv

----------------------------------------------------------------------------
(* C13 *)

\* C13: the retry POST after a 401 carries the same export, header and rows,
\* as the first POST.
C13_RetrySameBody ==
    Len(job.posts) = 2 => job.posts[2].body = job.posts[1].body

----------------------------------------------------------------------------
(* C14 *)

\* C14: no upload POST is sent with an authorization header built while the
\* stored credential was absent.
C14_NoPostWithoutCredential ==
    \A i \in 1..Len(job.posts) : job.posts[i].auth # None

----------------------------------------------------------------------------
(* C12 *)

DayIdx(p) == {i \in 1..Len(p.cards) : HasHeading(p.cards[i], DAY)}
FirstDay(p) == p.cards[CHOOSE i \in DayIdx(p) : \A j \in DayIdx(p) : i <= j]
NoLabels(c) == \A i \in 1..Len(c.items) : c.items[i].direct_text = <<>>
NoValues(c) == \A i \in 1..Len(c.items) : c.items[i].value = NoNode

\* C12: on every page, whatever nodes are present or absent, the record the
\* extraction returns has exactly the five fields, each a text;
\* a field whose source node is absent (pagination label, day or night card,
\* card heading, temperature node, panel items, their direct label text,
\* their value node) is the empty string.
C12_FiveFieldsAlways ==
    rec # Nothing =>
         LET p == page[1]
             r == rec[1]
         IN  /\ DOMAIN r = Range(FIELDS)
             /\ \A k \in DOMAIN r : DOMAIN r[k] = 1..Len(r[k])
             /\ p.date_tag = NoNode => r["Date"] = <<>>
             /\ DayIdx(p) = {} =>
                    /\ r["HighTemp"] = <<>>
                    /\ r["PrecipChance_%"] = <<>>
                    /\ r["PrecipAmount_mm"] = <<>>
             /\ NightIdx(p) = {} => r["LowTemp"] = <<>>
             /\ (DayIdx(p) # {} /\ FirstDay(p).temperature = NoNode) =>
                    r["HighTemp"] = <<>>
             /\ (NightIdx(p) # {} /\ FirstNight(p).temperature = NoNode) =>
                    r["LowTemp"] = <<>>
             /\ (DayIdx(p) # {} /\ (NoLabels(FirstDay(p)) \/ NoValues(FirstDay(p)))) =>
                    /\ r["PrecipChance_%"] = <<>>
                    /\ r["PrecipAmount_mm"] = <<>>

\* a page without pagination label and night card, whose day card has no
\* temperature node and panel items without label or without value
C12_Witness ==
    /\ rec # Nothing
    /\ page[1].date_tag = NoNode
    /\ DayIdx(page[1]) # {} /\ NightIdx(page[1]) = {}
    /\ FirstDay(page[1]).temperature = NoNode
    /\ FirstDay(page[1]).items = <<BareItem, NoValueItem>>
    /\ \A k \in DOMAIN rec[1] : rec[1][k] = <<>>

----------------------------------------------------------------------------
(* C15 *)

\* C15: with the timer's refresh interleaved at any point of an upload, the
\* retry POST carries a credential that a successful refresh assigned after
\* the headers of the first POST were built, never the credential of the
\* first POST; and the upload calls refresh at most once and sends at most
\* two POSTs.
C15_RetryUsesRenewedToken ==
    /\ Len(job.posts) <= 2 /\ job.refreshes <= 1
    /\ Len(job.posts) >= 1 => ~job.posts[1].renewed
    /\ job.pc = "retry" => job.hnew /\ renewed
    /\ Len(job.posts) = 2 => job.posts[2].renewed /\ job.stores = 1

\* a retry sent with the token the timer stored between the upload's own
\* assignment and its rebuilding of the headers
C15_Witness ==
    /\ Len(job.posts) = 2
    /\ job.posts[2].renewed
    /\ job.posts[2].auth # job.data
    /\ job.posts[2].auth # job.posts[1].auth
    /\ timer.result = "ok"

----------------------------------------------------------------------------
(* SpecScan: get_precip_chance and get_precip_amount on a card's panel items *)

ScanLabels ==
    {<<>>, <<POP_LABEL>>, <<<<" ">> \o PRECIP_LABEL \o <<" ">>>>,
     <<<<" ">>, PRECIP_LABEL>>, <<<<"Wind">>>>}
ScanValues == {NoNode, Some(<<"6", "0", "%">>), Some(<<"2", " ", "m", "m">>)}
ScanItems == [direct_text : ScanLabels, value : ScanValues]

\* the day card holding the panel items
ScanCard == [h2 |-> Some(DAY), temperature |-> NoNode, items |-> panel]

InitScan ==
    /\ ProcIdle
    /\ page = Nothing /\ rec = Nothing
    /\ sText = <<>> /\ sField = "none" /\ sOut = <<>>
    /\ panel \in SeqsUpTo(ScanItems, MaxItems)
    /\ scanOut = NoScan

\* main.py:110
ScanChance ==
    /\ scanOut.chance = Nothing
    /\ scanOut' = [scanOut EXCEPT !.chance = Some(get_precip_chance(Some(ScanCard)))]
    /\ UNCHANGED <<panel, procVars, extractVars, stripVars>>

\* main.py:111
ScanAmount ==
    /\ scanOut.amount = Nothing
    /\ scanOut' = [scanOut EXCEPT !.amount = Some(get_precip_amount(Some(ScanCard)))]
    /\ UNCHANGED <<panel, procVars, extractVars, stripVars>>

NextScan == ScanChance \/ ScanAmount

SpecScan == InitScan /\ [][NextScan]_vars

----------------------------------------------------------------------------
(* C16 *)

\* the items whose direct label text, the first direct text node stripped of
\* surrounding whitespace, equals the target
Labelled(items, target) ==
    {i \in 1..Len(items) :
        /\ items[i].direct_text # <<>>
        /\ py_strip(items[i].direct_text[1]) = target}
\* the stripped value of the first such item
FirstMatchValue(items, target, glyph) ==
    LET M == Labelled(items, target)
        i == CHOOSE x \in M : \A y \in M : x <= y
    IN  IF M = {} THEN <<>>
        ELSE IF items[i].value = NoNode THEN <<>>
        ELSE str_replace(py_strip(items[i].value[1]), glyph)

\* C16: each scan gives the stripped value of the first item, in document
\* order, whose direct label text equals its target, the empty string when
\* that item has no value node whatever later items hold, and the empty
\* string when no item matches; an item labelled "Probability of
\* Precipitation" is not a match of the "Precipitation" scan.
C16_FirstExactMatch ==
    /\ scanOut.chance # Nothing =>
           scanOut.chance[1] = FirstMatchValue(panel, POP_LABEL, PERCENT)
    /\ scanOut.amount # Nothing =>
           /\ scanOut.amount[1] = FirstMatchValue(panel, PRECIP_LABEL, MM_SUFFIX)
           /\ Labelled(panel, PRECIP_LABEL) = {} => scanOut.amount[1] = <<>>

\* a "Probability of Precipitation" item first, then a "Precipitation" item
\* without value node, then one with a value: both scans done
C16_Witness ==
    /\ Len(panel) = 3
    /\ panel[1] = [direct_text |-> <<POP_LABEL>>, value |-> Some(<<"2", " ", "m", "m">>)]
    /\ Labelled(panel, PRECIP_LABEL) = {2, 3}
    /\ panel[2].value = NoNode
    /\ panel[3].value # NoNode
    /\ scanOut.chance = Some(<<"2", " ", "m", "m">>)
    /\ scanOut.amount = Some(<<>>)

====
